---- MODULE Spec2Model ----
(***************************************************************************)
(* Model of the image workbench's command-and-history subsystem:          *)
(* commands.py (ICommand, CommandHistory, the command classes), the       *)
(* handlers of MainWindowController in ui.py that drive it, and the shape *)
(* contracts of the processors in processing.py.                          *)
(*                                                                         *)
(* Images are values: a loaded file, the result of one processor on a     *)
(* loaded file, or None.  No code path mutates an array in place after it *)
(* is stored in a slot or a snapshot, so value semantics is exact.        *)
(***************************************************************************)
EXTENDS Integers, Sequences, FiniteSets, TLC

\* ------------------------------------------------------------------ bounds
\* Commands constructed in one run (each construction takes a fresh identity).
MaxCmds == 3
\* How many of the files of FileSeq the open dialog can return.
NumFiles == 2
\* How many of the command classes of KindSeq the apply handlers offer.
NumKinds == 2

\* ------------------------------------------------------------------ images
Front(s) == SubSeq(s, 1, Len(s) - 1)

Last(s) == s[Len(s)]

\* Python's None in an image slot or snapshot.
None == [op |-> "None", of |-> "None"]

\* No pixel array (before a processor has returned one).
NoImg == [shape |-> <<>>, data |-> <<>>]

\* Files the dialog filter (*.png *.jpg *.bmp *.tif) admits, by array shape:
\* A colour H x W x 3, G grayscale H x W, P colour with alpha H x W x 4,
\* B a second colour file.  Their contents are such that every processor that
\* accepts the shape returns.
FileSeq == << [name |-> "A", shape |-> <<2, 2, 3>>],
              [name |-> "G", shape |-> <<2, 2>>],
              [name |-> "P", shape |-> <<2, 2, 4>>],
              [name |-> "B", shape |-> <<2, 2, 3>>] >>

Files == {FileSeq[i] : i \in 1..NumFiles}

\* What open_image returns for a readable file.
open_image(f) == [op |-> "src", of |-> f.name]

FileShape(n) == (CHOOSE f \in {FileSeq[i] : i \in 1..Len(FileSeq)} : f.name = n).shape

\* The image-processing command classes, in the order of commands.py.
KindSeq == << "Grayscale", "Hsv", "MultiOtsu", "ChanVese", "MorphSnakes",
              "Roberts", "Sobel", "Scharr", "Prewitt" >>

Kinds == {KindSeq[i] : i \in 1..NumKinds}

AllKinds == {KindSeq[i] : i \in 1..Len(KindSeq)}

\* Array shape of an image value (None has none; callers test for None first).
Shape(img) ==
  IF img = None THEN <<>>
  ELSE IF img.op = "src" THEN FileShape(img.of)
  ELSE IF img.op = "Hsv" THEN FileShape(img.of)
  ELSE SubSeq(FileShape(img.of), 1, 2)

\* color.rgb2gray(image): fails unless the last axis has size 3.
rgb2gray_raises(img) == Shape(img)[Len(Shape(img))] # 3

\* Whether proc.process(image) raises, by processor.  On None every processor
\* fails (attribute access on None).  Grayscale always calls rgb2gray; Hsv
\* returns its input when it is not H x W x 3; the others call rgb2gray only on
\* 3-dimensional input.
ProcessRaises(kind, img) ==
  IF img = None THEN TRUE
  ELSE IF kind = "Grayscale" THEN rgb2gray_raises(img)
  ELSE IF kind = "Hsv" THEN FALSE
  ELSE Len(Shape(img)) = 3 /\ rgb2gray_raises(img)

\* proc.process(image) when it returns.
Process(kind, img) ==
  IF kind = "Hsv" /\ (Len(Shape(img)) # 3 \/ Shape(img)[3] # 3)
  THEN img
  ELSE [op |-> kind, of |-> img.of]

\* MainWindowController._show_image(array, label): array.astype fails on None,
\* and the unpacking of img.shape fails unless the array is 2-D or 3-D.
show_image_raises(img) ==
  \/ img = None
  \/ Len(Shape(img)) \notin {2, 3}

\* ---------------------------------------------------------------- commands
\* A command instance.  id is the object's identity; cls its class; prev the
\* snapshot a BaseImageCommand holds; prev_src the reference a
\* ClearSourceCommand holds.  A field a class does not have stays None.
NoCmd == [id |-> 0, cls |-> "none", prev |-> None, prev_src |-> None]

\* The controller state a command reads and writes through self.ctrl.
Ctrl(src, out) == [img_source |-> src, img_output |-> out]

\* numpy's array.copy(): an equal, independent array.
copy(img) == img

\* Variant of BaseImageCommand_init that takes no snapshot.
BaseImageCommand_init_nosnapshot(id, kind, c) ==
  [id |-> id, cls |-> kind, prev |-> None, prev_src |-> None]

\* BaseImageCommand.__init__ (inherited by the nine processing commands).
BaseImageCommand_init(id, kind, c) ==
  [id |-> id, cls |-> kind,
   prev |-> IF c.img_output # None THEN copy(c.img_output) ELSE None,
   prev_src |-> None]

\* ClearSourceCommand.__init__.
ClearSourceCommand_init(id, c) ==
  [id |-> id, cls |-> "ClearSource", prev |-> None, prev_src |-> c.img_source]

\* ClearOutputCommand.__init__.
ClearOutputCommand_init(id, c) ==
  [id |-> id, cls |-> "ClearOutput", prev |-> None, prev_src |-> None]

\* The result of a method that ran on controller state c: the state it left
\* and whether it raised.
Ret(src, out, raised) == [img_source |-> src, img_output |-> out, raised |-> raised]

\* Variant of ImageCommand_execute that runs the processor on the current
\* output when there is one (filters chained on the previous result).
ImageCommand_execute_on_output(cmd, c) ==
  LET arg == IF c.img_output # None THEN c.img_output ELSE c.img_source
  IN  IF ProcessRaises(cmd.cls, arg)
      THEN Ret(c.img_source, c.img_output, TRUE)
      ELSE Ret(c.img_source, Process(cmd.cls, arg), FALSE)

\* GrayscaleCommand.execute .. PrewittCommand.execute: the processor runs on
\* the current source; a failure leaves the slots as they were.
ImageCommand_execute(cmd, c) ==
  IF ProcessRaises(cmd.cls, c.img_source)
  THEN Ret(c.img_source, c.img_output, TRUE)
  ELSE LET out == Process(cmd.cls, c.img_source)
       IN  Ret(c.img_source, out, show_image_raises(out))

\* Variant of BaseImageCommand_undo that recomputes the earlier output from
\* the current source instead of restoring the snapshot.
BaseImageCommand_undo_recomputes(cmd, c) ==
  IF cmd.prev = None \/ c.img_source = None
  THEN Ret(c.img_source, None, TRUE)
  ELSE IF ProcessRaises(cmd.prev.op, c.img_source)
  THEN Ret(c.img_source, c.img_output, TRUE)
  ELSE Ret(c.img_source, Process(cmd.prev.op, c.img_source), FALSE)

\* BaseImageCommand.undo: the slot is written first, then the display refresh
\* runs on the snapshot.
BaseImageCommand_undo(cmd, c) ==
  Ret(c.img_source, cmd.prev, show_image_raises(cmd.prev))

\* ClearSourceCommand.execute.
ClearSourceCommand_execute(cmd, c) == Ret(None, c.img_output, FALSE)

\* Variant of ClearSourceCommand_undo that restores nothing.
ClearSourceCommand_undo_nothing(cmd, c) == Ret(c.img_source, c.img_output, FALSE)

\* ClearSourceCommand.undo.
ClearSourceCommand_undo(cmd, c) ==
  Ret(cmd.prev_src, c.img_output, show_image_raises(cmd.prev_src))

\* Variant of ClearOutputCommand_execute that leaves the output slot alone.
ClearOutputCommand_execute_keeps(cmd, c) == Ret(c.img_source, c.img_output, FALSE)

\* ClearOutputCommand.execute.
ClearOutputCommand_execute(cmd, c) == Ret(c.img_source, None, FALSE)

\* ClearOutputCommand.undo: pass.
ClearOutputCommand_undo(cmd, c) == Ret(c.img_source, c.img_output, FALSE)

\* cmd.execute(), dispatched on the class.
execute(cmd, c) ==
  IF cmd.cls = "ClearSource" THEN ClearSourceCommand_execute(cmd, c)
  ELSE IF cmd.cls = "ClearOutput" THEN ClearOutputCommand_execute(cmd, c)
  ELSE ImageCommand_execute(cmd, c)

\* cmd.undo(), dispatched on the class.
cmd_undo(cmd, c) ==
  IF cmd.cls = "ClearSource" THEN ClearSourceCommand_undo(cmd, c)
  ELSE IF cmd.cls = "ClearOutput" THEN ClearOutputCommand_undo(cmd, c)
  ELSE BaseImageCommand_undo(cmd, c)

\* ----------------------------------------------------------- CommandHistory
Hist(u, r) == [_undo_stack |-> u, _redo_stack |-> r]

\* Variant of History_push that keeps the redo stack.
History_push_keeps_redo(h, cmd) == Hist(Append(h._undo_stack, cmd), h._redo_stack)

\* CommandHistory.push.
History_push(h, cmd) == Hist(Append(h._undo_stack, cmd), <<>>)

\* The result of CommandHistory.undo/redo: the stacks and slots it left, the
\* command it handled (NoCmd when the stack was empty) and whether it raised.
HRet(u, r, ret, cmd) ==
  [_undo_stack |-> u, _redo_stack |-> r, img_source |-> ret.img_source,
   img_output |-> ret.img_output, raised |-> ret.raised, cmd |-> cmd]

\* Variant of History_undo that reads the tail without popping it.
History_undo_no_pop(h, c) ==
  IF h._undo_stack = <<>>
  THEN HRet(h._undo_stack, h._redo_stack, Ret(c.img_source, c.img_output, FALSE), NoCmd)
  ELSE LET cmd == Last(h._undo_stack)
           r   == cmd_undo(cmd, c)
       IN  HRet(h._undo_stack,
                IF r.raised THEN h._redo_stack ELSE Append(h._redo_stack, cmd),
                r, cmd)

\* Variant of History_undo without the empty-stack guard: list.pop() on an
\* empty list raises IndexError.
History_undo_unguarded(h, c) ==
  IF h._undo_stack = <<>>
  THEN HRet(h._undo_stack, h._redo_stack, Ret(c.img_source, c.img_output, TRUE), NoCmd)
  ELSE LET cmd == Last(h._undo_stack)
           r   == cmd_undo(cmd, c)
       IN  HRet(Front(h._undo_stack),
                IF r.raised THEN h._redo_stack ELSE Append(h._redo_stack, cmd),
                r, cmd)

\* CommandHistory.undo: the pop comes before cmd.undo(), the append after it,
\* so a raising cmd.undo() leaves the command on neither stack.
History_undo(h, c) ==
  IF h._undo_stack = <<>>
  THEN HRet(h._undo_stack, h._redo_stack, Ret(c.img_source, c.img_output, FALSE), NoCmd)
  ELSE LET cmd == Last(h._undo_stack)
           r   == cmd_undo(cmd, c)
       IN  HRet(Front(h._undo_stack),
                IF r.raised THEN h._redo_stack ELSE Append(h._redo_stack, cmd),
                r, cmd)

\* Variant of History_redo that catches the failure of cmd.execute() and
\* clears the output slot.
History_redo_swallows(h, c) ==
  IF h._redo_stack = <<>>
  THEN HRet(h._undo_stack, h._redo_stack, Ret(c.img_source, c.img_output, FALSE), NoCmd)
  ELSE LET cmd == Last(h._redo_stack)
           r   == execute(cmd, c)
       IN  IF r.raised
           THEN HRet(h._undo_stack, Front(h._redo_stack),
                     Ret(c.img_source, None, FALSE), cmd)
           ELSE HRet(Append(h._undo_stack, cmd), Front(h._redo_stack), r, cmd)

\* Variant of History_redo in which the re-executed command takes its snapshot
\* again.
History_redo_resnapshot(h, c) ==
  IF h._redo_stack = <<>>
  THEN HRet(h._undo_stack, h._redo_stack, Ret(c.img_source, c.img_output, FALSE), NoCmd)
  ELSE LET cmd == Last(h._redo_stack)
           r   == execute(cmd, c)
           re  == [cmd EXCEPT !.prev = c.img_output]
       IN  HRet(IF r.raised THEN h._undo_stack ELSE Append(h._undo_stack, re),
                Front(h._redo_stack),
                r, cmd)

\* CommandHistory.redo: the pop comes before cmd.execute(), the append after.
History_redo(h, c) ==
  IF h._redo_stack = <<>>
  THEN HRet(h._undo_stack, h._redo_stack, Ret(c.img_source, c.img_output, FALSE), NoCmd)
  ELSE LET cmd == Last(h._redo_stack)
           r   == execute(cmd, c)
       IN  HRet(IF r.raised THEN h._undo_stack ELSE Append(h._undo_stack, cmd),
                Front(h._redo_stack),
                r, cmd)

\* -------------------------------------------------------------------- state
VARIABLES
  img_source,   \* MainWindowController.img_source
  img_output,   \* MainWindowController.img_output
  source_path,  \* MainWindowController.source_path ("" for None)
  _undo_stack,  \* CommandHistory._undo_stack, tail last
  _redo_stack,  \* CommandHistory._redo_stack, tail last
  srcCtl,       \* enabled: clear/export source and the nine processing controls
  outCtl,       \* enabled: save, save-as, export-output, clear-output
  undoCtl,      \* enabled: btnUndoOutput / actionUndoOutput
  redoCtl,      \* enabled: btnRedoOutput / actionRedoOutput
  nextId,       \* identity of the next command object constructed
  born,         \* history: born[i] is the output slot when command i was constructed
  running,      \* the Qt event loop is still dispatching
  faulted,      \* history: some exception has escaped a handler
  last,         \* history: the handler that ran last and what it did
  scen,         \* history: the apply* undo* redo* run in progress
  api,          \* the command a direct client of commands.py holds (SpecApi)
  px            \* the call a direct client of processing.py makes (SpecProc)

vars == << img_source, img_output, source_path, _undo_stack, _redo_stack,
           srcCtl, outCtl, undoCtl, redoCtl, nextId, born, running,
           faulted, last, scen, api, px >>

ctrlVars == << img_source, img_output, source_path, _undo_stack, _redo_stack,
               srcCtl, outCtl, undoCtl, redoCtl, running, faulted, scen, px >>

\* Identities of the commands on a stack.
Ids(stack) == {stack[i].id : i \in 1..Len(stack)}

OnStacks == Ids(_undo_stack) \cup Ids(_redo_stack)

\* What `last` records of a handler run: its name, the identity of the command
\* it constructed or popped (0 if none), whether an exception left it, and
\* whether show_error was called.
Did(op, cmd, raised, error) ==
  [op |-> op, id |-> cmd.id, raised |-> raised, error |-> error]

ScenOff == [phase |-> "off", outs |-> <<>>, k |-> 0, j |-> 0]

NoApi == [cmd |-> NoCmd, at0 |-> Ctrl(None, None), trail |-> <<>>]

\* No processor has been called.
NoPx ==
  [proc |-> "none", image |-> NoImg, out |-> NoImg, raised |-> FALSE,
   thr |-> [n |-> 0, d |-> 1], divisors |-> {}]

\* MainWindowController.__init__ with _set_initial_state, and main().
Init ==
  /\ img_source = None
  /\ img_output = None
  /\ source_path = ""
  /\ _undo_stack = <<>>
  /\ _redo_stack = <<>>
  /\ srcCtl = FALSE
  /\ outCtl = FALSE
  /\ undoCtl = FALSE
  /\ redoCtl = FALSE
  /\ nextId = 1
  /\ born = <<>>
  /\ running = TRUE
  /\ faulted = FALSE
  /\ last = Did("init", NoCmd, FALSE, FALSE)
  /\ scen = ScenOff
  /\ api = NoApi
  /\ px = NoPx

\* An exception that leaves a slot reaches PyQt5 with no excepthook installed
\* by main.py: depending on the PyQt5 build and on the hook the environment
\* installs, the process aborts or the traceback is printed and the event
\* loop goes on.  Without an exception the loop goes on.
Escapes(raised) ==
  /\ running' \in (IF raised THEN BOOLEAN ELSE {TRUE})
  /\ faulted' = (faulted \/ raised)

\* The run tracked by scen: n applies from (source loaded, no output, empty
\* history), then k <= n undos, then j <= k redos; outs[i] is the output after
\* the i-th apply.  Anything else ends the run.
ScenApply(raised, out) ==
  IF raised THEN ScenOff
  ELSE IF scen.phase = "apply"
       THEN [scen EXCEPT !.outs = Append(@, out)]
  ELSE IF img_output = None /\ _undo_stack = <<>> /\ _redo_stack = <<>>
       THEN [phase |-> "apply", outs |-> <<out>>, k |-> 0, j |-> 0]
  ELSE ScenOff

ScenUndo ==
  IF scen.phase \in {"apply", "undo"} /\ scen.k < Len(scen.outs)
  THEN [scen EXCEPT !.phase = "undo", !.k = @ + 1]
  ELSE ScenOff

ScenRedo ==
  IF scen.phase \in {"undo", "redo"} /\ scen.j < scen.k
  THEN [scen EXCEPT !.phase = "redo", !.j = @ + 1]
  ELSE ScenOff

\* The output the run tracked by scen should show now.
ScenExpected ==
  LET m == Len(scen.outs) - scen.k + scen.j
  IN  IF m = 0 THEN None ELSE scen.outs[m]

\* ----------------------------------------------------------------- handlers
\* MainWindowController._disable_output_controls sets outCtl, undoCtl and
\* redoCtl to FALSE; _update_undo_redo_buttons sets undoCtl and redoCtl to
\* "the stack is non-empty".  Both are written out in the handlers below.

\* The file dialog's answers: a file that open_image can or cannot read.  A
\* cancelled dialog returns before anything is touched: a stuttering step.
DialogAnswers == {[file |-> f, how |-> h] : f \in Files, h \in {"read", "unreadable"}}

\* Variant of open_source that empties the source slot before it reads the
\* file, so that a failed read leaves it empty.
open_source_clears_first ==
  /\ running
  /\ \E a \in DialogAnswers :
       LET img == open_image(a.file)
           shown == a.how = "read" /\ ~show_image_raises(img)
       IN  /\ img_source' = IF a.how = "read" THEN img ELSE None
           /\ source_path' = IF a.how = "read" THEN a.file.name ELSE source_path
           /\ srcCtl' = IF shown THEN TRUE ELSE srcCtl
           /\ outCtl' = IF shown THEN FALSE ELSE outCtl
           /\ undoCtl' = IF shown THEN FALSE ELSE undoCtl
           /\ redoCtl' = IF shown THEN FALSE ELSE redoCtl
           /\ last' = Did("open_source", NoCmd, FALSE, ~shown)
  /\ Escapes(FALSE)
  /\ scen' = ScenOff
  /\ UNCHANGED << img_output, _undo_stack, _redo_stack, nextId, born, api, px >>

\* Variant of open_source that starts afresh on a new source: a successful
\* read empties the output slot and the history.
open_source_resets_history ==
  /\ running
  /\ \E a \in DialogAnswers :
       LET img == open_image(a.file)
           shown == a.how = "read" /\ ~show_image_raises(img)
       IN  /\ img_source' = IF a.how = "read" THEN img ELSE img_source
           /\ source_path' = IF a.how = "read" THEN a.file.name ELSE source_path
           /\ srcCtl' = IF shown THEN TRUE ELSE srcCtl
           /\ outCtl' = IF shown THEN FALSE ELSE outCtl
           /\ undoCtl' = IF shown THEN FALSE ELSE undoCtl
           /\ redoCtl' = IF shown THEN FALSE ELSE redoCtl
           /\ last' = Did("open_source", NoCmd, FALSE, ~shown)
  /\ Escapes(FALSE)
  /\ scen' = ScenOff
  /\ \/ /\ last'.error
        /\ UNCHANGED << img_output, _undo_stack, _redo_stack >>
     \/ /\ ~last'.error
        /\ img_output' = None
        /\ _undo_stack' = <<>>
        /\ _redo_stack' = <<>>
  /\ UNCHANGED << nextId, born, api, px >>

\* MainWindowController.open_source.
open_source ==
  /\ running
  /\ \E a \in DialogAnswers :
       LET img == open_image(a.file)
           shown == a.how = "read" /\ ~show_image_raises(img)
       IN  /\ img_source' = IF a.how = "read" THEN img ELSE img_source
           /\ source_path' = IF a.how = "read" THEN a.file.name ELSE source_path
           /\ srcCtl' = IF shown THEN TRUE ELSE srcCtl
           /\ outCtl' = IF shown THEN FALSE ELSE outCtl
           /\ undoCtl' = IF shown THEN FALSE ELSE undoCtl
           /\ redoCtl' = IF shown THEN FALSE ELSE redoCtl
           /\ last' = Did("open_source", NoCmd, FALSE, ~shown)
  /\ Escapes(FALSE)
  /\ scen' = ScenOff
  /\ UNCHANGED << img_output, _undo_stack, _redo_stack, nextId, born, api, px >>

\* Variant of clear_source that leaves the history as push left it.
clear_source_keeps_history ==
  /\ running
  /\ nextId <= MaxCmds
  /\ LET c0  == Ctrl(img_source, img_output)
         cmd == ClearSourceCommand_init(nextId, c0)
         h1  == History_push(Hist(_undo_stack, _redo_stack), cmd)
         e   == execute(cmd, c0)
     IN  /\ img_source' = e.img_source
         /\ img_output' = None
         /\ _undo_stack' = h1._undo_stack
         /\ _redo_stack' = h1._redo_stack
         /\ last' = Did("clear_source", cmd, FALSE, FALSE)
  /\ srcCtl' = FALSE
  /\ outCtl' = FALSE
  /\ undoCtl' = FALSE
  /\ redoCtl' = FALSE
  /\ nextId' = nextId + 1
  /\ born' = Append(born, img_output)
  /\ Escapes(FALSE)
  /\ scen' = ScenOff
  /\ UNCHANGED << source_path, api, px >>

\* MainWindowController.clear_source.
clear_source ==
  /\ running
  /\ nextId <= MaxCmds
  /\ LET c0  == Ctrl(img_source, img_output)
         cmd == ClearSourceCommand_init(nextId, c0)
         h1  == History_push(Hist(_undo_stack, _redo_stack), cmd)
         e   == execute(cmd, c0)
     IN  /\ img_source' = e.img_source
         /\ img_output' = None
         /\ _undo_stack' = <<>>
         /\ _redo_stack' = <<>>
         /\ last' = Did("clear_source", cmd, FALSE, FALSE)
  /\ srcCtl' = FALSE
  /\ outCtl' = FALSE
  /\ undoCtl' = FALSE
  /\ redoCtl' = FALSE
  /\ nextId' = nextId + 1
  /\ born' = Append(born, img_output)
  /\ Escapes(FALSE)
  /\ scen' = ScenOff
  /\ UNCHANGED << source_path, api, px >>

\* MainWindowController.clear_output.
clear_output ==
  /\ running
  /\ nextId <= MaxCmds
  /\ LET c0  == Ctrl(img_source, img_output)
         cmd == ClearOutputCommand_init(nextId, c0)
         h1  == History_push(Hist(_undo_stack, _redo_stack), cmd)
         e   == execute(cmd, c0)
     IN  /\ img_output' = e.img_output
         /\ _undo_stack' = <<>>
         /\ _redo_stack' = <<>>
         /\ last' = Did("clear_output", cmd, FALSE, FALSE)
  /\ outCtl' = FALSE
  /\ undoCtl' = FALSE
  /\ redoCtl' = FALSE
  /\ nextId' = nextId + 1
  /\ born' = Append(born, img_output)
  /\ Escapes(FALSE)
  /\ scen' = ScenOff
  /\ UNCHANGED << img_source, source_path, srcCtl, api, px >>

\* MainWindowController.undo.
undo ==
  /\ running
  /\ LET r == History_undo(Hist(_undo_stack, _redo_stack), Ctrl(img_source, img_output))
         empty == r.img_output = None
     IN  /\ img_source' = r.img_source
         /\ img_output' = r.img_output
         /\ _undo_stack' = r._undo_stack
         /\ _redo_stack' = r._redo_stack
         /\ outCtl' = IF r.raised THEN outCtl
                      ELSE IF empty THEN FALSE ELSE outCtl
         /\ undoCtl' = IF r.raised THEN undoCtl
                       ELSE IF empty THEN FALSE ELSE r._undo_stack # <<>>
         /\ redoCtl' = IF r.raised THEN redoCtl
                       ELSE IF empty THEN FALSE ELSE r._redo_stack # <<>>
         /\ last' = Did("undo", r.cmd, r.raised, FALSE)
         /\ Escapes(r.raised)
  /\ scen' = ScenUndo
  /\ UNCHANGED << source_path, srcCtl, nextId, born, api, px >>

\* MainWindowController.redo.
redo ==
  /\ running
  /\ LET r == History_redo(Hist(_undo_stack, _redo_stack), Ctrl(img_source, img_output))
     IN  /\ img_source' = r.img_source
         /\ img_output' = r.img_output
         /\ _undo_stack' = r._undo_stack
         /\ _redo_stack' = r._redo_stack
         /\ redoCtl' = IF r.raised THEN redoCtl
                       ELSE ~(r.img_output = None \/ r._redo_stack = <<>>)
         /\ last' = Did("redo", r.cmd, r.raised, FALSE)
         /\ Escapes(r.raised)
  /\ scen' = ScenRedo
  /\ UNCHANGED << source_path, srcCtl, outCtl, undoCtl, nextId, born, api, px >>

\* Variant of _apply without the test of img_source: on an empty source the
\* command is constructed and pushed, and its execute() raises.
_apply_unguarded(kind) ==
  /\ running
  /\ nextId <= MaxCmds
  /\ LET c0  == Ctrl(img_source, img_output)
         cmd == BaseImageCommand_init(nextId, kind, c0)
         h1  == History_push(Hist(_undo_stack, _redo_stack), cmd)
         e   == execute(cmd, c0)
     IN  /\ img_output' = e.img_output
         /\ _undo_stack' = h1._undo_stack
         /\ _redo_stack' = h1._redo_stack
         /\ outCtl' = IF e.raised THEN outCtl ELSE TRUE
         /\ undoCtl' = IF e.raised THEN undoCtl ELSE h1._undo_stack # <<>>
         /\ redoCtl' = IF e.raised THEN redoCtl ELSE h1._redo_stack # <<>>
         /\ last' = Did("apply", cmd, e.raised, FALSE)
         /\ Escapes(e.raised)
         /\ scen' = ScenApply(e.raised, e.img_output)
  /\ nextId' = nextId + 1
  /\ born' = Append(born, img_output)
  /\ UNCHANGED << img_source, source_path, srcCtl, api, px >>

\* MainWindowController._apply(CmdClass), for the class named kind.
_apply(kind) ==
  /\ running
  /\ IF img_source = None
     THEN /\ last' = Did("apply", NoCmd, FALSE, FALSE)
          /\ Escapes(FALSE)
          /\ scen' = ScenOff
          /\ UNCHANGED << img_output, _undo_stack, _redo_stack, outCtl, undoCtl,
                          redoCtl, nextId, born >>
     ELSE /\ nextId <= MaxCmds
          /\ LET c0  == Ctrl(img_source, img_output)
                 cmd == BaseImageCommand_init(nextId, kind, c0)
                 h1  == History_push(Hist(_undo_stack, _redo_stack), cmd)
                 e   == execute(cmd, c0)
             IN  /\ img_output' = e.img_output
                 /\ _undo_stack' = h1._undo_stack
                 /\ _redo_stack' = h1._redo_stack
                 /\ outCtl' = IF e.raised THEN outCtl ELSE TRUE
                 /\ undoCtl' = IF e.raised THEN undoCtl ELSE h1._undo_stack # <<>>
                 /\ redoCtl' = IF e.raised THEN redoCtl ELSE h1._redo_stack # <<>>
                 /\ last' = Did("apply", cmd, e.raised, FALSE)
                 /\ Escapes(e.raised)
                 /\ scen' = ScenApply(e.raised, e.img_output)
          /\ nextId' = nextId + 1
          /\ born' = Append(born, img_output)
  /\ UNCHANGED << img_source, source_path, srcCtl, api, px >>

\* ------------------------------------------------- the program, user-driven
\* _connect_signals: a handler runs when its button or menu action fires, and
\* a disabled control does not fire.  The open control is never disabled.
click_open_source == open_source

click_clear_source == srcCtl /\ clear_source

click_clear_output == outCtl /\ clear_output

click_undo == undoCtl /\ undo

click_redo == redoCtl /\ redo

click_apply == srcCtl /\ \E kind \in Kinds : _apply(kind)

Next ==
  \/ click_open_source
  \/ click_clear_source
  \/ click_clear_output
  \/ click_undo
  \/ click_redo
  \/ click_apply

Spec == Init /\ [][Next]_vars

\* ------------------------------------- the program with its handlers called
\* The apply handlers are public methods (apply_rgb2gray .. apply_edge_prewitt)
\* and test img_source themselves: SpecCalls is the program of Spec with, in
\* addition, an apply handler called while its control is disabled.
call_apply == ~srcCtl /\ \E kind \in Kinds : _apply(kind)

NextCalls ==
  \/ Next
  \/ call_apply

SpecCalls == Init /\ [][NextCalls]_vars

\* ------------------------------------------- the program with its file output
\* The four handlers that write a file change no slot and no stack; SpecFiles
\* is the program of Spec with them.
\* utils.save_image(img, path): io.imsave writes the file, or fails (path not
\* writable, array not encodable in the format) and IOError is raised.
save_image_outcomes == {"written", "failed"}

\* What the four handlers share after their guard: with nothing to save they
\* return at once; otherwise save_image runs, inside no try block.  A
\* cancelled save dialog returns before save_image: a stuttering step.
Saves(op, nothing) ==
  /\ running
  /\ \E how \in (IF nothing THEN {"skipped"} ELSE save_image_outcomes) :
       /\ last' = Did(op, NoCmd, how = "failed", FALSE)
       /\ Escapes(how = "failed")
  /\ scen' = ScenOff
  /\ UNCHANGED << img_source, img_output, source_path, _undo_stack, _redo_stack,
                  srcCtl, outCtl, undoCtl, redoCtl, nextId, born, api, px >>

\* MainWindowController.save_output.
save_output == Saves("save_output", source_path = "" \/ img_output = None)

\* MainWindowController.save_as_output.
save_as_output == Saves("save_as_output", source_path = "" \/ img_output = None)

\* MainWindowController.export_source.
export_source == Saves("export_source", img_source = None)

\* MainWindowController.export_output.
export_output == Saves("export_output", img_output = None)

click_save_output == outCtl /\ save_output

click_save_as_output == outCtl /\ save_as_output

click_export_source == srcCtl /\ export_source

click_export_output == outCtl /\ export_output

NextFiles ==
  \/ Next
  \/ click_save_output
  \/ click_save_as_output
  \/ click_export_source
  \/ click_export_output

SpecFiles == Init /\ [][NextFiles]_vars

\* ------------------------------------ commands.py used directly by a client
\* A client of commands.py (tests.py imports the classes this way) that
\* constructs one command on a controller and calls its execute() and undo().
\* api.cmd is the command it holds, api.at0 the controller's slots when the
\* command was constructed, api.trail the calls made on it since.
MaxTrail == 3

ApiClasses == Kinds \cup {"ClearSource", "ClearOutput"}

\* The outputs a processor can have left in the output slot.
Outputs ==
  {Process(p[1], open_image(p[2])) :
     p \in {q \in Kinds \X Files : ~ProcessRaises(q[1], open_image(q[2]))}}

InitApi ==
  /\ img_source \in {None} \cup {open_image(f) : f \in Files}
  /\ img_output \in {None} \cup Outputs
  /\ source_path = ""
  /\ _undo_stack = <<>>
  /\ _redo_stack = <<>>
  /\ srcCtl = FALSE
  /\ outCtl = FALSE
  /\ undoCtl = FALSE
  /\ redoCtl = FALSE
  /\ nextId = 1
  /\ born = <<>>
  /\ running = TRUE
  /\ faulted = FALSE
  /\ last = Did("init", NoCmd, FALSE, FALSE)
  /\ scen = ScenOff
  /\ api = NoApi
  /\ px = NoPx

\* cmd = Class(ctrl).
api_new ==
  /\ nextId <= MaxCmds
  /\ \E cls \in ApiClasses :
       LET c0  == Ctrl(img_source, img_output)
           cmd == IF cls = "ClearSource" THEN ClearSourceCommand_init(nextId, c0)
                  ELSE IF cls = "ClearOutput" THEN ClearOutputCommand_init(nextId, c0)
                  ELSE BaseImageCommand_init(nextId, cls, c0)
       IN  /\ api' = [cmd |-> cmd, at0 |-> c0, trail |-> <<>>]
           /\ last' = Did("cmd_new", cmd, FALSE, FALSE)
  /\ nextId' = nextId + 1
  /\ born' = Append(born, img_output)
  /\ UNCHANGED ctrlVars

\* cmd.execute(); an exception reaches the client, which goes on.
api_execute ==
  /\ api.cmd # NoCmd
  /\ Len(api.trail) < MaxTrail
  /\ LET r == execute(api.cmd, Ctrl(img_source, img_output))
     IN  /\ img_source' = r.img_source
         /\ img_output' = r.img_output
         /\ last' = Did("cmd_execute", api.cmd, r.raised, FALSE)
  /\ api' = [api EXCEPT !.trail = Append(@, "execute")]
  /\ UNCHANGED << source_path, _undo_stack, _redo_stack, srcCtl, outCtl, undoCtl,
                  redoCtl, nextId, born, running, faulted, scen, px >>

\* cmd.undo().
api_undo ==
  /\ api.cmd # NoCmd
  /\ Len(api.trail) < MaxTrail
  /\ LET r == cmd_undo(api.cmd, Ctrl(img_source, img_output))
     IN  /\ img_source' = r.img_source
         /\ img_output' = r.img_output
         /\ last' = Did("cmd_undo", api.cmd, r.raised, FALSE)
  /\ api' = [api EXCEPT !.trail = Append(@, "undo")]
  /\ UNCHANGED << source_path, _undo_stack, _redo_stack, srcCtl, outCtl, undoCtl,
                  redoCtl, nextId, born, running, faulted, scen, px >>

NextApi ==
  \/ api_new
  \/ api_execute
  \/ api_undo

SpecApi == InitApi /\ [][NextApi]_vars

\* ------------------------------------------------- numpy float64 arithmetic
\* The processors compute in IEEE-754 binary64.  A non-negative float is
\* [m, e], the number m * 2^e; m is a natural number of any size, written as
\* its digits to the base Limb, least significant first.  Every operation
\* computes the exact result and rounds it to 53 significant bits, to nearest,
\* ties to even, as the hardware does.
Limb == 16384

LimbBits == 14

Mantissa == 53

RECURSIVE BNorm(_)
BNorm(a) == IF a = <<>> THEN a ELSE IF Last(a) = 0 THEN BNorm(Front(a)) ELSE a

RECURSIVE BAddC(_, _, _)
BAddC(a, b, c) ==
  IF a = <<>> /\ b = <<>>
  THEN IF c = 0 THEN <<>> ELSE <<c>>
  ELSE LET x == IF a = <<>> THEN 0 ELSE Head(a)
           y == IF b = <<>> THEN 0 ELSE Head(b)
           t == x + y + c
       IN  <<t % Limb>> \o BAddC(IF a = <<>> THEN a ELSE Tail(a),
                                 IF b = <<>> THEN b ELSE Tail(b), t \div Limb)

BAdd(a, b) == BAddC(a, b, 0)

RECURSIVE BMulSmallC(_, _, _)
BMulSmallC(a, k, c) ==
  IF a = <<>>
  THEN IF c = 0 THEN <<>> ELSE <<c>>
  ELSE LET t == Head(a) * k + c
       IN  <<t % Limb>> \o BMulSmallC(Tail(a), k, t \div Limb)

RECURSIVE BMulR(_, _)
BMulR(a, b) ==
  IF b = <<>> THEN <<>>
  ELSE BAdd(BMulSmallC(a, Head(b), 0), <<0>> \o BMulR(a, Tail(b)))

BMul(a, b) == BNorm(BMulR(a, b))

\* a * 2^s.
BShl(a, s) ==
  BNorm([i \in 1..(s \div LimbBits) |-> 0] \o BMulSmallC(a, 2^(s % LimbBits), 0))

\* Quotient and remainder of a by k <= Limb, from the most significant digit.
RECURSIVE BDivTop(_, _, _)
BDivTop(a, k, rem) ==
  IF a = <<>> THEN [q |-> <<>>, r |-> rem]
  ELSE LET t    == rem * Limb + Last(a)
           rest == BDivTop(Front(a), k, t % k)
       IN  [q |-> Append(rest.q, t \div k), r |-> rest.r]

\* floor(a / 2^s).
BShr(a, s) ==
  LET n == s \div LimbBits
  IN  IF n >= Len(a) THEN <<>>
      ELSE BNorm(BDivTop(SubSeq(a, n + 1, Len(a)), 2^(s % LimbBits), 0).q)

\* The s lowest bits of a are all 0.
BLowZero(a, s) ==
  LET n == s \div LimbBits
  IN  /\ \A i \in 1..n : i > Len(a) \/ a[i] = 0
      /\ n >= Len(a) \/ a[n + 1] % (2^(s % LimbBits)) = 0

BOdd(a) == a # <<>> /\ a[1] % 2 = 1

RECURSIVE Bits(_)
Bits(n) == IF n = 0 THEN 0 ELSE 1 + Bits(n \div 2)

BitLen(a) == IF a = <<>> THEN 0 ELSE LimbBits * (Len(a) - 1) + Bits(Last(a))

\* Rounding of the exact value m * 2^e to binary64.
FRound(m, e) ==
  IF BitLen(m) <= Mantissa THEN [m |-> m, e |-> e]
  ELSE LET s  == BitLen(m) - Mantissa
           q  == BShr(m, s)
           up == BOdd(BShr(m, s - 1)) /\ (~BLowZero(m, s - 1) \/ BOdd(q))
       IN  [m |-> IF up THEN BAdd(q, <<1>>) ELSE q, e |-> e + s]

\* float(n) for an integer 0 <= n < Limb^2.
FInt(n) == [m |-> BNorm(<<n % Limb, n \div Limb>>), e |-> 0]

\* x * y.
FMul(x, y) == FRound(BMul(x.m, y.m), x.e + y.e)

\* x + y.
FAdd(x, y) ==
  LET e == IF x.e < y.e THEN x.e ELSE y.e
  IN  FRound(BAdd(BShl(x.m, x.e - e), BShl(y.m, y.e - e)), e)

\* x / k for an integer 0 < k <= Limb: the quotient to 57 bits or more, with a
\* lowest bit that records a remainder, then rounded.
FDivInt(x, k) ==
  LET d == BDivTop(BShl(x.m, 70), k, 0)
  IN  FRound(BAdd(BShl(BNorm(d.q), 1), IF d.r = 0 THEN <<>> ELSE <<1>>), x.e - 71)

\* ndarray.astype(np.uint8) of a float 0 <= x < 256: the fraction is cut off.
FTrunc(x) ==
  LET n == IF x.e >= 0 THEN BShl(x.m, x.e) ELSE BShr(x.m, 0 - x.e)
  IN  IF n = <<>> THEN 0 ELSE n[1]

\* ---------------------------------------------- processing.py on pixel arrays
\* A pixel array is [shape, data]: the numpy shape and the uint8 samples in
\* row-major order.  The arrays a client passes: every shape up to MaxSide x
\* MaxSide, 2-D or with 1 to 4 channels, whose pixels are grey (the samples of
\* one pixel are equal) and either all of one value 0..255 or laid out from a
\* pattern of two or three of the values of Levels.
MaxSide == 2

Levels == <<0, 128, 255>>

PxShapes ==
  {<<h, w>> : h \in 1..MaxSide, w \in 1..MaxSide}
    \cup {<<h, w, c>> : h \in 1..MaxSide, w \in 1..MaxSide, c \in 1..4}

Patterns ==
  {<<v>> : v \in 0..255}
    \cup [1..2 -> {Levels[i] : i \in 1..Len(Levels)}]
    \cup [1..3 -> {Levels[i] : i \in 1..Len(Levels)}]

Image(shape, pat) ==
  LET c == IF Len(shape) = 3 THEN shape[3] ELSE 1
  IN  [shape |-> shape,
       data  |-> [k \in 1..(shape[1] * shape[2] * c) |->
                    pat[(((k - 1) \div c) % Len(pat)) + 1]]]

Images == {Image(sh, p) : sh \in PxShapes, p \in Patterns}

Uniform(image) ==
  \A i \in 1..Len(image.data) : image.data[i] = image.data[1]

\* What process(image) did: the array it returned, or that it raised.
PRet(image, raised) == [image |-> image, raised |-> raised]

\* skimage's img_as_float on a uint8 sample: np.multiply(image, 1. / 255).
img_as_float(v) == FMul(FInt(v), FDivInt(FInt(1), 255))

\* The coefficients of color.rgb2gray, the doubles nearest to 0.2125, 0.7154
\* and 0.0721.
rgb2gray_coeffs ==
  << FDivInt(FInt(2125), 10000), FDivInt(FInt(7154), 10000),
     FDivInt(FInt(721), 10000) >>

\* rgb @ coeffs adds the three products in an order the BLAS build decides:
\* the product named here is added last.
SumOrders == 1..3

\* color.rgb2gray on one pixel <<r, g, b>>.
rgb2gray_pixel(t, order) ==
  LET p == [i \in 1..3 |-> FMul(img_as_float(t[i]), rgb2gray_coeffs[i])]
      a == CHOOSE i \in 1..3 : i # order /\ \A j \in 1..3 : j # order => i <= j
      b == CHOOSE i \in 1..3 : i # order /\ i # a
  IN  FAdd(FAdd(p[a], p[b]), p[order])

\* color.rgb2gray(image): the last axis must have size 3 and is reduced away.
rgb2gray(image, order) ==
  IF Last(image.shape) # 3 THEN PRet(NoImg, TRUE)
  ELSE LET trip(j) == SubSeq(image.data, 3 * j - 2, 3 * j)
           n == Len(image.data) \div 3
           g == [t \in {trip(j) : j \in 1..n} |-> rgb2gray_pixel(t, order)]
       IN  PRet([shape |-> Front(image.shape), data |-> [j \in 1..n |-> g[trip(j)]]],
                FALSE)

\* Rgb2GrayProcessor.process: (color.rgb2gray(image) * 255).astype(np.uint8).
Rgb2GrayProcessor_process(image, order) ==
  LET gray == rgb2gray(image, order)
  IN  IF gray.raised THEN gray
      ELSE LET vals == {gray.image.data[j] : j \in 1..Len(gray.image.data)}
               u8 == [x \in vals |-> FTrunc(FMul(x, FInt(255))) % 256]
           IN  PRet([shape |-> gray.image.shape,
                     data |-> [j \in 1..Len(gray.image.data) |-> u8[gray.image.data[j]]]],
                    FALSE)

\* color.rgb2hsv on one grey pixel, then (hsv * 255).astype(np.uint8): delta is
\* 0, so hue and saturation are set to 0 and the value is the sample as a
\* float.  (The hue and saturation arithmetic of other pixels is not modelled.)
rgb2hsv_pixel(t) ==
  CASE t[1] = t[2] /\ t[2] = t[3] ->
         <<0, 0, FTrunc(FMul(img_as_float(t[1]), FInt(255))) % 256>>

\* Variant of Rgb2HsvProcessor_process without the early return: the array
\* goes to color.rgb2hsv, which rejects it.
Rgb2HsvProcessor_process_unguarded(image) ==
  IF Len(image.shape) # 3 \/ image.shape[3] # 3 THEN PRet(NoImg, TRUE)
  ELSE PRet(image, FALSE)

\* Rgb2HsvProcessor.process.
Rgb2HsvProcessor_process(image) ==
  IF Len(image.shape) # 3 \/ image.shape[3] # 3 THEN PRet(image, FALSE)
  ELSE LET trip(j) == SubSeq(image.data, 3 * j - 2, 3 * j)
           n == Len(image.data) \div 3
           h == [t \in {trip(j) : j \in 1..n} |-> rgb2hsv_pixel(t)]
       IN  PRet([shape |-> image.shape,
                 data |-> [k \in 1..Len(image.data) |->
                             h[trip(((k - 1) \div 3) + 1)][((k - 1) % 3) + 1]]],
                FALSE)

\* filters.threshold_multiotsu(gray, classes=3) by the set of values that
\* occur in gray: with fewer than 3 of them it raises ValueError; with exactly
\* 3 the thresholds are the two lowest (for an integer image the histogram has
\* one bin per value).  (The search among more than 3 values is not modelled.)
threshold_multiotsu(vals) ==
  CASE Cardinality(vals) < 3 -> [raised |-> TRUE, thresholds |-> <<>>]
    [] Cardinality(vals) = 3 ->
         LET lo  == CHOOSE x \in vals : \A y \in vals : x <= y
             mid == CHOOSE x \in vals \ {lo} : \A y \in vals \ {lo} : x <= y
         IN  [raised |-> FALSE, thresholds |-> <<lo, mid>>]

\* np.digitize(x, bins): the number of bins[i] <= x.
digitize(x, bins) == Cardinality({i \in 1..Len(bins) : bins[i] <= x})

\* The class indices np.digitize assigns to an integer 2-D image.
Classes(image) ==
  LET t == threshold_multiotsu({image.data[k] : k \in 1..Len(image.data)})
  IN  [k \in 1..Len(image.data) |-> digitize(image.data[k], t.thresholds)]

Max(S) == CHOOSE x \in S : \A y \in S : y <= x

\* (result * (255 // result.max())).astype(np.uint8); numpy's integer
\* division by 0 gives 0.
rescale(result) ==
  LET m == Max({result[k] : k \in 1..Len(result)})
      f == IF m = 0 THEN 0 ELSE 255 \div m
  IN  [k \in 1..Len(result) |-> (result[k] * f) % 256]

\* The arrays on which MultiOtsuProcessor.process is modelled: 2-D ones, those
\* color.rgb2gray rejects, and colour ones with fewer than 3 different pixels
\* (their grey image has fewer than 3 different values whatever the rounding).
MultiOtsuModelled(image) ==
  IF Len(image.shape) = 2 THEN TRUE
  ELSE IF image.shape[3] # 3 THEN TRUE
  ELSE Cardinality({SubSeq(image.data, 3 * j - 2, 3 * j) :
                      j \in 1..(Len(image.data) \div 3)}) < 3

\* MultiOtsuProcessor.process: gray is color.rgb2gray(image) for a 3-D array
\* and the array itself otherwise.
MultiOtsuProcessor_process(image, order) ==
  LET gray == IF Len(image.shape) = 3 THEN rgb2gray(image, order)
              ELSE PRet(image, FALSE)
  IN  IF gray.raised THEN PRet(NoImg, TRUE)
      ELSE LET t == threshold_multiotsu({gray.image.data[k] :
                                           k \in 1..Len(gray.image.data)})
           IN  IF t.raised THEN PRet(NoImg, TRUE)
               ELSE PRet([shape |-> gray.image.shape,
                          data  |-> rescale(Classes(gray.image))], FALSE)

\* ---- _edge_emphasize
\* The edge response of filters.roberts/sobel/scharr/prewitt is a 2-D array of
\* non-negative floats.  Here a response map is a 2-D array of multiples of one
\* unit and every intermediate value is kept as the exact fraction n/d, so a
\* division is visible as its denominator.  What is checked of the floats is
\* their order, x - x = 0 and x / x = 1, which rounding keeps.
Frac(n, d) == [n |-> n, d |-> d]

Min(S) == CHOOSE x \in S : \A y \in S : x <= y

\* Variant of edge_normalize without the test of res.max(): numpy's 0 / 0 is
\* nan (d = 0 here).
edge_normalize_unguarded(data) ==
  LET lo  == Min({data[k] : k \in 1..Len(data)})
      res == [k \in 1..Len(data) |-> data[k] - lo]
      m   == Max({res[k] : k \in 1..Len(res)})
  IN  [res |-> [k \in 1..Len(res) |-> Frac(res[k], m)], divisors |-> {Frac(m, 1)}]

\* res = res - res.min(); if res.max() > 0: res /= res.max().  divisors are
\* the values divided by.
edge_normalize(data) ==
  LET lo  == Min({data[k] : k \in 1..Len(data)})
      res == [k \in 1..Len(data) |-> data[k] - lo]
      m   == Max({res[k] : k \in 1..Len(res)})
  IN  IF m > 0
      THEN [res |-> [k \in 1..Len(res) |-> Frac(res[k], m)],
            divisors |-> {Frac(m, 1)}]
      ELSE [res |-> [k \in 1..Len(res) |-> Frac(res[k], 1)], divisors |-> {}]

\* The bins of the histogram threshold_otsu takes of a float image.
NBins == 256

\* The bin of np.histogram(res, NBins, range=(0, 1)) a value of res falls in;
\* the last bin is closed.
bin(x) == IF x.n = x.d THEN NBins - 1 ELSE (NBins * x.n) \div x.d

\* filters.threshold_otsu(res), as the set of values it can return.  When all
\* pixels are equal it returns that pixel.  Otherwise it returns the centre
\* bin_centers[idx] of the bin idx = argmax(variance12) over the first
\* NBins - 1 bins; variance12 is constant from a non-empty bin up to the next
\* one and argmax takes the first index, so idx is a non-empty bin.  Which of
\* them maximises the float variance12 is left open.
threshold_otsu(res) ==
  IF \A k \in 1..Len(res) : res[k] = res[1] THEN {res[1]}
  ELSE {Frac(2 * i + 1, 2 * NBins) :
          i \in {bin(res[k]) : k \in 1..Len(res)} \ {NBins - 1}}

\* out = (res - thr) / (1 - thr) if (1 - thr) > 0 else res, for one pixel x.
\* The value is nan (d = 0) when x or thr is.
edge_rescale(x, thr) ==
  IF x.d = 0 \/ thr.d = 0 THEN [out |-> Frac(0, 0), divisors |-> {}]
  ELSE IF thr.d - thr.n > 0
  THEN [out |-> Frac(x.n * thr.d - thr.n * x.d, x.d * (thr.d - thr.n)),
        divisors |-> {Frac(thr.d - thr.n, thr.d)}]
  ELSE [out |-> x, divisors |-> {}]

\* np.clip(out, 0, 1) for one pixel; nan stays nan.
clip(x) ==
  IF x.d = 0 THEN x
  ELSE IF x.n < 0 THEN Frac(0, 1)
  ELSE IF x.n > x.d THEN Frac(1, 1)
  ELSE x

\* (out * 255).astype(np.uint8) for one pixel; nan is cast to 0.
to_uint8(x) == IF x.d = 0 THEN 0 ELSE ((255 * x.n) \div x.d) % 256

\* _edge_emphasize(res) when threshold_otsu returns thr: the array returned,
\* the threshold used and the values divided by.
_edge_emphasize(image, thr) ==
  LET norm == edge_normalize(image.data)
      outs == [k \in 1..Len(norm.res) |-> edge_rescale(norm.res[k], thr)]
  IN  [image    |-> [shape |-> image.shape,
                     data  |-> [k \in 1..Len(outs) |-> to_uint8(clip(outs[k].out))]],
       raised   |-> FALSE,
       thr      |-> thr,
       divisors |-> norm.divisors
                      \cup UNION {outs[k].divisors : k \in 1..Len(outs)}]

\* A client of processing.py (tests.py calls the processors this way) that
\* passes one array to one processor.  px.image is the array, px.proc the
\* processor called, px.out what it returned, px.raised whether it raised;
\* px.thr and px.divisors are what _edge_emphasize reported.
InitProc ==
  /\ img_source = None
  /\ img_output = None
  /\ source_path = ""
  /\ _undo_stack = <<>>
  /\ _redo_stack = <<>>
  /\ srcCtl = FALSE
  /\ outCtl = FALSE
  /\ undoCtl = FALSE
  /\ redoCtl = FALSE
  /\ nextId = 1
  /\ born = <<>>
  /\ running = TRUE
  /\ faulted = FALSE
  /\ last = Did("init", NoCmd, FALSE, FALSE)
  /\ scen = ScenOff
  /\ api = NoApi
  /\ px \in {[NoPx EXCEPT !.image = img] : img \in Images}

Called(proc, r) ==
  /\ px' = [px EXCEPT !.proc = proc, !.out = r.image, !.raised = r.raised]
  /\ UNCHANGED << img_source, img_output, source_path, _undo_stack, _redo_stack,
                  srcCtl, outCtl, undoCtl, redoCtl, nextId, born, running,
                  faulted, last, scen, api >>

\* Rgb2GrayProcessor().process(image).
proc_rgb2gray ==
  /\ px.proc = "none"
  /\ \E order \in SumOrders :
       Called("Rgb2Gray", Rgb2GrayProcessor_process(px.image, order))

\* Rgb2HsvProcessor().process(image).
proc_rgb2hsv ==
  /\ px.proc = "none"
  /\ Called("Rgb2Hsv", Rgb2HsvProcessor_process(px.image))

\* MultiOtsuProcessor().process(image).
proc_multiotsu ==
  /\ px.proc = "none"
  /\ MultiOtsuModelled(px.image)
  /\ \E order \in SumOrders :
       Called("MultiOtsu", MultiOtsuProcessor_process(px.image, order))

\* _edge_emphasize(res) on a 2-D response map.
proc_edge_emphasize ==
  /\ px.proc = "none"
  /\ Len(px.image.shape) = 2
  /\ \E thr \in threshold_otsu(edge_normalize(px.image.data).res) :
       LET r == _edge_emphasize(px.image, thr)
       IN  /\ px' = [px EXCEPT !.proc = "edge_emphasize", !.out = r.image,
                               !.raised = r.raised, !.thr = r.thr,
                               !.divisors = r.divisors]
           /\ UNCHANGED << img_source, img_output, source_path, _undo_stack,
                           _redo_stack, srcCtl, outCtl, undoCtl, redoCtl,
                           nextId, born, running, faulted, last, scen, api >>

NextProc ==
  \/ proc_rgb2gray
  \/ proc_rgb2hsv
  \/ proc_multiotsu
  \/ proc_edge_emphasize

SpecProc == InitProc /\ [][NextProc]_vars

\* =================================================================== claims
\* The controller's slots and the history's stacks, as the operators take them.
NowCtrl == Ctrl(img_source, img_output)

NowHist == Hist(_undo_stack, _redo_stack)

\* Identities constructed so far that are on neither stack.
OffStacks == (1..(nextId - 1)) \ OnStacks

\* C1: an apply leaves the redo stack empty and the new command at the tail
\* of the undo stack (the rest of it as it was), so a redo right after it is a
\* no-op; and a command that is on neither stack never comes back onto a stack
\* and is never handled (executed or undone) by a later handler.
C1_PushClearsRedo ==
  [][ /\ (last'.op = "apply" /\ last'.id # 0) =>
           /\ _redo_stack' = <<>>
           /\ _undo_stack' # <<>>
           /\ Front(_undo_stack') = _undo_stack
           /\ Last(_undo_stack').id = last'.id
           /\ LET r == History_redo(Hist(_undo_stack', _redo_stack'),
                                    Ctrl(img_source', img_output'))
              IN  /\ r.cmd = NoCmd
                  /\ ~r.raised
                  /\ r._undo_stack = _undo_stack'
                  /\ r._redo_stack = _redo_stack'
                  /\ r.img_output = img_output'
      /\ \A i \in OffStacks :
           /\ i \notin OnStacks'
           /\ last'.id # i
    ]_vars

\* C1 witness: push(a); undo(); push(b) has happened without any exception: the
\* last handler was an apply, and a command younger than one still on the undo
\* stack is on neither stack (only a push's clearing of the redo stack removes
\* a command and keeps an older one).
C1_Witness ==
  /\ last.op = "apply"
  /\ last.id # 0
  /\ ~faulted
  /\ \E i \in OffStacks : \E n \in 1..Len(_undo_stack) : _undo_stack[n].id < i

\* C2: no command instance is on both stacks, and none is twice on one stack.
C2_OneStackOnce ==
  /\ Ids(_undo_stack) \cap Ids(_redo_stack) = {}
  /\ Cardinality(Ids(_undo_stack)) = Len(_undo_stack)
  /\ Cardinality(Ids(_redo_stack)) = Len(_redo_stack)

\* C2 witness: after a redo has moved a command back, both stacks hold commands.
C2_Witness ==
  /\ last.op = "redo"
  /\ last.id # 0
  /\ Len(_undo_stack) >= 2
  /\ Len(_redo_stack) >= 1

\* C3 as claimed, for the runs in which no exception has left a handler: after
\* every c.execute(), by an apply or by a redo, c.undo() would leave the output
\* slot equal to the output present immediately before that execute().
C3_RoundTripEveryExecute ==
  [][ (~faulted' /\ last'.op \in {"apply", "redo"} /\ last'.id # 0) =>
        cmd_undo(Last(_undo_stack'), Ctrl(img_source', img_output')).img_output
          = img_output
    ]_vars

\* C3 as amended: after every c.execute(), by an apply or by a redo, whether it
\* raised or not, c.undo() would leave the output slot equal to the output
\* present when c was constructed; for the execution by the apply that
\* constructed c this is the output immediately before the execute().
C3_RoundTripToConstruction ==
  [][ (last'.op \in {"apply", "redo"} /\ last'.id # 0) =>
        LET c == IF last'.op = "apply" THEN Last(_undo_stack') ELSE Last(_redo_stack)
            u == cmd_undo(c, Ctrl(img_source', img_output'))
        IN  /\ c.id = last'.id
            /\ u.img_output = born'[c.id]
            /\ (last'.op = "apply" => u.img_output = img_output)
    ]_vars

\* C3 witness: a redo has re-executed a command whose snapshot is an image, in
\* a run without exceptions.
C3_Witness ==
  /\ last.op = "redo"
  /\ last.id # 0
  /\ ~last.raised
  /\ ~faulted
  /\ Last(_undo_stack).id = last.id
  /\ born[last.id] # None

\* C4: during n applies from (source loaded, no output, empty history), then
\* k <= n undos, then j <= k redos, the output slot is the output that
\* existed after apply number n - k + j (empty when that number is 0).
C4_EndToEnd == scen.phase # "off" => img_output = ScenExpected

\* C5: an undo on a non-empty undo stack removes exactly its tail c, sets the
\* output slot to c's snapshot and appends c to the redo stack.
C5_UndoMovesTail ==
  [][ (last'.op = "undo" /\ _undo_stack # <<>>) =>
        /\ _undo_stack' = Front(_undo_stack)
        /\ img_output' = Last(_undo_stack).prev
        /\ _redo_stack' = Append(_redo_stack, Last(_undo_stack))
    ]_vars

\* C6: a redo on a non-empty redo stack removes exactly its tail c, writes the
\* processor's result for the current source into the output slot and appends
\* c to the undo stack.
C6_RedoMovesTail ==
  [][ (last'.op = "redo" /\ _redo_stack # <<>>) =>
        /\ _redo_stack' = Front(_redo_stack)
        /\ img_output' = Process(Last(_redo_stack).cls, img_source)
        /\ _undo_stack' = Append(_undo_stack, Last(_redo_stack))
    ]_vars

\* C7: an undo or a redo leaves the set of commands on the two stacks as it was.
C7_NeverLost ==
  [][ last'.op \in {"undo", "redo"} => OnStacks' = OnStacks ]_vars

\* C8: an undo on an empty undo stack and a redo on an empty redo stack raise
\* nothing and leave both stacks and both slots as they were.
C8_EmptyNoOp ==
  [][ (\/ last'.op = "undo" /\ _undo_stack = <<>>
       \/ last'.op = "redo" /\ _redo_stack = <<>>) =>
        /\ ~last'.raised
        /\ UNCHANGED << _undo_stack, _redo_stack, img_source, img_output >>
    ]_vars

\* C8 witness: a redo found its stack empty while the undo stack is empty too
\* and the undo control is still enabled.
C8_Witness ==
  /\ last.op = "redo"
  /\ last.id = 0
  /\ _undo_stack = <<>>
  /\ undoCtl

\* C9: from any state, ClearOutputCommand's execute() then undo() leave the
\* output slot empty and raise nothing; and right after clear_output the output
\* slot is empty and an undo or a redo changes neither the stacks nor the
\* slots, so no sequence of them brings the cleared output back.
C9_ClearOutputIrreversible ==
  /\ LET cmd  == ClearOutputCommand_init(nextId, NowCtrl)
         e    == execute(cmd, NowCtrl)
         back == cmd_undo(cmd, Ctrl(e.img_source, e.img_output))
     IN  /\ ~e.raised
         /\ ~back.raised
         /\ e.img_output = None
         /\ back.img_output = None
  /\ last.op = "clear_output" =>
       LET u == History_undo(NowHist, NowCtrl)
           r == History_redo(NowHist, NowCtrl)
       IN  /\ img_output = None
           /\ u = HRet(_undo_stack, _redo_stack, Ret(img_source, None, FALSE), NoCmd)
           /\ r = HRet(_undo_stack, _redo_stack, Ret(img_source, None, FALSE), NoCmd)

\* C9 witness: clear_output has just cleared an output that was an image.
C9_Witness ==
  /\ last.op = "clear_output"
  /\ born[last.id] # None

\* C10: on a ClearSourceCommand constructed with source S, execute() empties
\* the source slot and a following undo() sets it back to S; neither call
\* touches the output slot.
C10_ClearSourceReversible ==
  api.cmd.cls = "ClearSource" =>
    /\ api.trail = <<"execute">> =>
         /\ img_source = None
         /\ img_output = api.at0.img_output
    /\ api.trail = <<"execute", "undo">> =>
         /\ img_source = api.at0.img_source
         /\ img_output = api.at0.img_output

\* C10 witness: execute() then undo() ran on a ClearSourceCommand constructed
\* with an image in each slot.
C10_Witness ==
  /\ api.cmd.cls = "ClearSource"
  /\ api.trail = <<"execute", "undo">>
  /\ api.at0.img_source # None
  /\ api.at0.img_output # None

\* The command an apply or a redo has just executed (last'.id # 0).
Executed == IF last'.op = "apply" THEN Last(_undo_stack') ELSE Last(_redo_stack)

\* C11: the snapshot of every image-processing command on either stack is the
\* output slot as it was when the command was constructed, whatever has been
\* executed, undone, redone, cleared or loaded since.
C11_SnapshotFixed ==
  \A stack \in {_undo_stack, _redo_stack} :
    \A i \in 1..Len(stack) :
      stack[i].cls \in AllKinds => stack[i].prev = born[stack[i].id]

\* C11 witness: a command on a stack holds an image as snapshot while the
\* output slot holds something else and the source is another file than the
\* one the snapshot was computed from.
C11_Witness ==
  \E stack \in {_undo_stack, _redo_stack} :
    \E i \in 1..Len(stack) :
      /\ stack[i].prev # None
      /\ stack[i].prev # img_output
      /\ img_source # None
      /\ stack[i].prev.of # img_source.of

\* C12: an execute() that returns, by an apply or by a redo, leaves in the
\* output slot the processor's result for the source slot as it is now; and
\* executing the command again on that source gives the same output whatever
\* its snapshot holds, and whatever the output slot holds.
C12_ExecuteFromSource ==
  [][ (last'.op \in {"apply", "redo"} /\ last'.id # 0 /\ ~last'.raised) =>
        /\ Executed.id = last'.id
        /\ img_output' = Process(Executed.cls, img_source')
        /\ \A p \in {None} \cup Outputs :
             LET again == execute([Executed EXCEPT !.prev = p],
                                  Ctrl(img_source', img_output'))
             IN  /\ ~again.raised
                 /\ again.img_output = img_output'
        /\ \A o \in {None} \cup Outputs :
             LET again == execute(Executed, Ctrl(img_source', o))
             IN  /\ ~again.raised
                 /\ again.img_output = img_output'
    ]_vars

\* C12 witness: a redo has re-executed a command whose snapshot was computed
\* from another file than the current source.
C12_Witness ==
  /\ last.op = "redo"
  /\ last.id # 0
  /\ ~last.raised
  /\ Last(_undo_stack).prev # None
  /\ Last(_undo_stack).prev.of # img_source.of

\* C13: when the processor fails in the execute() of an apply or of a redo,
\* the exception leaves the handler (nothing in between catches it) and both
\* slots are as they were before.
C13_FailurePropagates ==
  [][ (/\ last'.op \in {"apply", "redo"}
       /\ last'.id # 0
       /\ ProcessRaises(Executed.cls, img_source)) =>
        /\ last'.raised
        /\ img_output' = img_output
        /\ img_source' = img_source
    ]_vars

\* C13 witness: a redo's execute() has failed while the output slot held an
\* image.
C13_Witness ==
  /\ last.op = "redo"
  /\ last.id # 0
  /\ last.raised
  /\ img_output # None

\* C14: an apply whose execute() raised leaves the undo stack and the redo
\* stack as they were before the apply.
C14_PushOnlyOnSuccess ==
  [][ (last'.op = "apply" /\ last'.raised) =>
        UNCHANGED << _undo_stack, _redo_stack >>
    ]_vars

\* C15: an open_source in which open_image raised calls the error sink, lets
\* no exception out and leaves both slots and both stacks as they were.
C15_LoadFailureNoEffect ==
  [][ (last'.op = "open_source" /\ last'.error) =>
        /\ ~last'.raised
        /\ UNCHANGED << img_source, img_output, _undo_stack, _redo_stack >>
    ]_vars

\* C15 witness: a read has failed while a source, an output and a history
\* were there to lose.
C15_Witness ==
  /\ last.op = "open_source"
  /\ last.error
  /\ img_source # None
  /\ img_output # None
  /\ _undo_stack # <<>>
  /\ _redo_stack # <<>>

SaveOps == {"save_output", "save_as_output", "export_source", "export_output"}

\* C16: when save_image fails in one of the four saving handlers, the error
\* sink is called, no exception leaves the handler, and slots and stacks are
\* as they were.
C16_SaveFailureSurfaced ==
  [][ (last'.op \in SaveOps /\ (last'.raised \/ last'.error)) =>
        /\ last'.error
        /\ ~last'.raised
        /\ UNCHANGED << img_source, img_output, _undo_stack, _redo_stack >>
    ]_vars

\* C17: when MultiOtsuProcessor.process returns and the highest class index m
\* that np.digitize assigned is at least 1, every pixel of class m is 255 in
\* the output and every pixel of class 0 is 0.
C17_MaxClassTo255 ==
  (px.proc = "MultiOtsu" /\ ~px.raised /\ Len(px.image.shape) = 2) =>
    LET result == Classes(px.image)
        m == Max({result[k] : k \in 1..Len(result)})
    IN  m >= 1 =>
          \A k \in 1..Len(result) :
            /\ result[k] = m => px.out.data[k] = 255
            /\ result[k] = 0 => px.out.data[k] = 0

\* C18: for an array that is not 3-D with exactly 3 channels,
\* Rgb2HsvProcessor.process raises nothing and returns the array it was given.
C18_HsvIdentity ==
  (px.proc = "Rgb2Hsv" /\ ~(Len(px.image.shape) = 3 /\ px.image.shape[3] = 3)) =>
    /\ ~px.raised
    /\ px.out = px.image

\* C18 witness: a 3-D array with 4 channels and different samples has been
\* through Rgb2HsvProcessor.process.
C18_Witness ==
  /\ px.proc = "Rgb2Hsv"
  /\ Len(px.image.shape) = 3
  /\ px.image.shape[3] = 4
  /\ ~Uniform(px.image)
  /\ px.out = px.image

\* C19: MultiOtsuProcessor.process on an array whose pixels are all equal
\* raises nothing and returns an array whose pixels are all equal.
C19_UniformStaysUniform ==
  (px.proc = "MultiOtsu" /\ Uniform(px.image)) =>
    /\ ~px.raised
    /\ px.out.shape # <<>>
    /\ Uniform(px.out)

\* C20: for an H x W x 3 array whose samples all equal v,
\* Rgb2GrayProcessor.process returns an H x W array whose pixels all equal v.
C20_GrayOfUniform ==
  (/\ px.proc = "Rgb2Gray"
   /\ Len(px.image.shape) = 3
   /\ Last(px.image.shape) = 3
   /\ Uniform(px.image)) =>
    /\ ~px.raised
    /\ px.out.shape = Front(px.image.shape)
    /\ \A k \in 1..Len(px.out.data) : px.out.data[k] = px.image.data[1]

\* C21: _edge_emphasize returns for every response map and divides by nothing
\* that is 0.  On a uniform map (shifted maximum 0) the normalisation is
\* skipped and the output is all 0; a threshold of 1 would leave the
\* normalised response as it is; otherwise every pixel at or below the
\* threshold is 0, every pixel of maximal response is 255, and all outputs are
\* in 0..255.
C21_EmphasizeTotal ==
  (px.proc = "edge_emphasize") =>
    LET norm == edge_normalize(px.image.data)
        n == Len(px.image.data)
    IN  /\ ~px.raised
        /\ \A q \in px.divisors : q.n # 0 /\ q.d # 0
        /\ px.out.shape = px.image.shape
        /\ \A k \in 1..n : px.out.data[k] \in 0..255
        /\ \A k \in 1..n : edge_rescale(norm.res[k], Frac(1, 1)).out = norm.res[k]
        /\ IF Uniform(px.image)
           THEN /\ px.divisors = {Frac(1, 1)}
                /\ \A k \in 1..n : px.out.data[k] = 0
           ELSE \A k \in 1..n :
                  /\ norm.res[k].n * px.thr.d <= px.thr.n * norm.res[k].d
                       => px.out.data[k] = 0
                  /\ norm.res[k].n = norm.res[k].d => px.out.data[k] = 255

\* C21 witness: a map with a pixel below the threshold, a pixel between the
\* threshold and the maximum, and a pixel at the maximum has been emphasized.
C21_Witness ==
  /\ px.proc = "edge_emphasize"
  /\ \E k \in 1..Len(px.out.data) : px.out.data[k] = 0
  /\ \E k \in 1..Len(px.out.data) : px.out.data[k] \in 1..254
  /\ \E k \in 1..Len(px.out.data) : px.out.data[k] = 255

\* The source slot can hold None or any readable file.
Sources == {None} \cup {open_image(f) : f \in Files}

\* C22: an apply, an undo and a redo leave the source slot as it was, and an
\* undo that pops a command writes that command's snapshot into the output
\* slot: the same value whatever the source slot holds, also None.
C22_SourceUntouched ==
  [][ (last'.op \in {"apply", "undo", "redo"}) =>
        /\ img_source' = img_source
        /\ (last'.op = "undo" /\ last'.id # 0) =>
             LET cmd == Last(_undo_stack)
             IN  /\ cmd.id = last'.id
                 /\ cmd.cls \in AllKinds
                 /\ img_output' = cmd.prev
                 /\ \A s \in Sources :
                      /\ cmd_undo(cmd, Ctrl(s, img_output)).img_output = cmd.prev
                      /\ cmd_undo(cmd, Ctrl(s, img_output)).img_source = s
                 /\ \A s \in Sources :
                      execute(cmd, Ctrl(s, img_output)).img_source = s
    ]_vars

\* C22 witness: an undo has restored a snapshot that was computed from another
\* file than the one in the source slot.
C22_Witness ==
  /\ last.op = "undo"
  /\ last.id # 0
  /\ ~last.raised
  /\ img_output # None
  /\ img_source # None
  /\ img_output.of # img_source.of

\* C23: right after clear_source and right after clear_output both stacks and
\* the output slot are empty, after clear_source the source slot too, and
\* CommandHistory.undo and redo then change no stack and no slot and raise
\* nothing: the cleared source does not come back.
C23_ClearResetsHistory ==
  (last.op \in {"clear_source", "clear_output"}) =>
    LET u == History_undo(NowHist, NowCtrl)
        r == History_redo(NowHist, NowCtrl)
    IN  /\ _undo_stack = <<>>
        /\ _redo_stack = <<>>
        /\ img_output = None
        /\ last.op = "clear_source" => img_source = None
        /\ ~undoCtl /\ ~redoCtl
        /\ u = HRet(<<>>, <<>>, Ret(img_source, None, FALSE), NoCmd)
        /\ r = HRet(<<>>, <<>>, Ret(img_source, None, FALSE), NoCmd)

\* C23 witness: clear_source has just run on a loaded source with an output.
C23_Witness ==
  /\ last.op = "clear_source"
  /\ born[last.id] # None
  /\ source_path # ""
  /\ img_source = None

\* C24: while the event loop is dispatching, whenever the undo control is
\* enabled the undo stack is non-empty, and whenever the redo control is
\* enabled the redo stack is non-empty.
C24_EnabledMeansNonEmpty ==
  running =>
    /\ undoCtl => _undo_stack # <<>>
    /\ redoCtl => _redo_stack # <<>>

\* C25: an open_source that read its file leaves the output slot and both
\* stacks as they were and puts the file in the source slot; the commands on
\* the redo stack are the ones recorded before, and CommandHistory.redo then
\* executes the tail on the new source.
C25_OpenReplacesOnlySource ==
  [][ (last'.op = "open_source" /\ ~last'.error) =>
        /\ UNCHANGED << img_output, _undo_stack, _redo_stack >>
        /\ img_source' \in Sources \ {None}
        /\ _redo_stack' # <<>> =>
             LET cmd == Last(_redo_stack')
                 r   == History_redo(Hist(_undo_stack', _redo_stack'),
                                     Ctrl(img_source', img_output'))
             IN  /\ r.cmd = cmd
                 /\ r.img_source = img_source'
                 /\ r._redo_stack = Front(_redo_stack)
                 /\ IF ProcessRaises(cmd.cls, img_source')
                    THEN r.raised /\ r.img_output = img_output
                    ELSE /\ r.img_output = Process(cmd.cls, img_source')
                         /\ r._undo_stack = Append(_undo_stack, cmd)
    ]_vars

\* C25 witness: a file has been read while an output computed from another
\* file was shown and both stacks held commands.
C25_Witness ==
  /\ last.op = "open_source"
  /\ ~last.error
  /\ img_output # None
  /\ img_output.of # img_source.of
  /\ _undo_stack # <<>>
  /\ _redo_stack # <<>>

\* C26: an apply on an empty source slot constructs and pushes no command and
\* leaves the output slot, both stacks and the controls as they were; an apply
\* on a loaded source pushes exactly one new command, whose snapshot is the
\* output slot as it was when the apply began.
C26_ApplyNeedsSource ==
  [][ (last'.op = "apply") =>
        IF img_source = None
        THEN /\ last'.id = 0
             /\ ~last'.raised
             /\ UNCHANGED << img_source, img_output, _undo_stack, _redo_stack,
                             nextId, born, srcCtl, outCtl, undoCtl, redoCtl >>
        ELSE /\ last'.id = nextId
             /\ nextId' = nextId + 1
             /\ Front(_undo_stack') = _undo_stack
             /\ Last(_undo_stack').id = nextId
             /\ Last(_undo_stack').id \notin OnStacks
             /\ Last(_undo_stack').cls \in Kinds
             /\ Last(_undo_stack').prev = img_output
    ]_vars

\* C26 witness: an apply handler has been called on an empty source slot after
\* the program had held a source (a command was constructed before).
C26_Witness ==
  /\ last.op = "apply"
  /\ last.id = 0
  /\ img_source = None
  /\ nextId > 1

====
